---- MODULE Spec2Model ----
(***************************************************************************)
(* Receipt processor core (backend/utils/utils.go): ValidateReceipt,       *)
(* CalculatePoints, GenerateReceiptID and ValidateID, with the expiring    *)
(* cache GenerateReceiptID is handed.                                      *)
(*                                                                         *)
(* A Go string is a sequence of one-character strings (its bytes; every    *)
(* string drawn here is ASCII), so that len, indexing, comparison, regular *)
(* expressions and the parsers are computed character by character.        *)
(***************************************************************************)
EXTENDS Integers, Sequences, FiniteSets, Bags, TLC

VARIABLES cache, now, receipt, verr, points, last, calls

vars == <<cache, now, receipt, verr, points, last, calls>>

(***************************************************************************)
(* Bounds of the model.                                                    *)
(***************************************************************************)
\* The clock stops ticking at MaxTime.
MaxTime == 2
\* The cache's default expiration (cache.DefaultExpiration), in clock ticks.
TTL == 1
\* Number of goroutines calling GenerateReceiptID concurrently (SpecConc).
NumProcs == 2
\* Longest retailer name and item description drawn from NameAlphabet.
MaxNameLen == 2
\* Longest item list drawn from PureItems.
MaxItems == 2

(***************************************************************************)
(* Bytes and strings.                                                      *)
(***************************************************************************)
Digits == {"0", "1", "2", "3", "4", "5", "6", "7", "8", "9"}
Letters == {"A", "B", "M", "T", "a", "b", "c"}
\* Go regexp (RE2) classes: \d is [0-9], \w is [0-9A-Za-z_], \s is [\t\n\f\r ].
WordChars == Digits \cup Letters \cup {"_"}
SpaceChars == {"\t", "\n", "\f", "\r", " "}

\* The byte value of each character drawn by the model.
Ascii(c) ==
    CASE c = "\t" -> 9 [] c = "\n" -> 10 [] c = "\f" -> 12 [] c = "\r" -> 13
      [] c = " " -> 32 [] c = "&" -> 38 [] c = "-" -> 45 [] c = "." -> 46
      [] c = "0" -> 48 [] c = "1" -> 49 [] c = "2" -> 50 [] c = "3" -> 51
      [] c = "4" -> 52 [] c = "5" -> 53 [] c = "6" -> 54 [] c = "7" -> 55
      [] c = "8" -> 56 [] c = "9" -> 57 [] c = ":" -> 58
      [] c = "A" -> 65 [] c = "B" -> 66 [] c = "M" -> 77 [] c = "T" -> 84
      [] c = "_" -> 95 [] c = "a" -> 97 [] c = "b" -> 98 [] c = "c" -> 99

DigitVal(c) == Ascii(c) - 48

\* Go's string comparison a < b: bytewise lexicographic.
StrLess(a, b) ==
  \E k \in 1..(Len(b)) :
    /\ \A j \in 1..(k - 1) : j <= Len(a) /\ a[j] = b[j]
    /\ k - 1 <= Len(a)
    /\ (k > Len(a) \/ Ascii(a[k]) < Ascii(b[k]))

\* s[lo..hi] (1-based, inclusive), the empty string when lo > hi.
Slice(s, lo, hi) == [i \in 1..(hi - lo + 1) |-> s[lo + i - 1]]

\* strings.ReplaceAll(s, " ", ""): every U+0020 dropped, nothing else.
RemoveSpaces(s) == SelectSeq(s, LAMBDA c : c # " ")

\* strings.TrimSpace(s): leading and trailing white space dropped
\* (for ASCII: \t \n \v \f \r and space).
TrimSpace(s) ==
  LET keep == {i \in 1..Len(s) : s[i] \notin SpaceChars}
  IN  IF keep = {} THEN <<>>
      ELSE LET lo == CHOOSE i \in keep : \A j \in keep : i <= j
               hi == CHOOSE i \in keep : \A j \in keep : i >= j
           IN  Slice(s, lo, hi)

\* strings.HasSuffix(s, suffix)
HasSuffix(s, suffix) ==
  /\ Len(s) >= Len(suffix)
  /\ Slice(s, Len(s) - Len(suffix) + 1, Len(s)) = suffix

(***************************************************************************)
(* Regular expressions of the validator.                                   *)
(***************************************************************************)
\* ^[\w\s\-]+$
MatchName(s) ==
  /\ Len(s) >= 1
  /\ \A i \in 1..Len(s) : s[i] \in WordChars \cup SpaceChars \cup {"-"}

\* ^\d+\.\d{2}$  (in Go, $ without the m flag matches only at the end of text)
MatchMoney(s) ==
  /\ Len(s) >= 4
  /\ s[Len(s) - 2] = "."
  /\ \A i \in 1..Len(s) : i # Len(s) - 2 => s[i] \in Digits

\* ^\S+$
MatchNoSpace(s) ==
  /\ Len(s) >= 1
  /\ \A i \in 1..Len(s) : s[i] \notin SpaceChars

(***************************************************************************)
(* Parsers of the standard library, as the code calls them.                *)
(***************************************************************************)
AllDigits(s) == \A i \in 1..Len(s) : s[i] \in Digits

\* The value of a string of decimal digits.
RECURSIVE DigitsToInt(_)
DigitsToInt(ds) ==
  IF Len(ds) = 0 THEN 0
  ELSE 10 * DigitsToInt(Slice(ds, 1, Len(ds) - 1)) + DigitVal(ds[Len(ds)])

RECURSIVE Pow10(_)
Pow10(n) == IF n = 0 THEN 1 ELSE 10 * Pow10(n - 1)

IsLeap(year) == year % 4 = 0 /\ (year % 100 # 0 \/ year % 400 = 0)

\* time.daysIn(month, year)
daysIn(month, year) ==
  IF month = 2 THEN (IF IsLeap(year) THEN 29 ELSE 28)
  ELSE IF month \in {4, 6, 9, 11} THEN 30 ELSE 31

\* time.Parse("2006-01-02", s): a four-digit year, a two-digit month in
\* 1..12, a two-digit day in 1..daysIn, "-" between them, nothing after.
ParseDate(s) ==
  IF /\ Len(s) = 10
     /\ s[5] = "-" /\ s[8] = "-"
     /\ AllDigits(Slice(s, 1, 4)) /\ AllDigits(Slice(s, 6, 7))
     /\ AllDigits(Slice(s, 9, 10))
  THEN LET year == DigitsToInt(Slice(s, 1, 4))
           month == DigitsToInt(Slice(s, 6, 7))
           day == DigitsToInt(Slice(s, 9, 10))
       IN  IF month >= 1 /\ month <= 12 /\ day >= 1 /\ day <= daysIn(month, year)
           THEN [ok |-> TRUE, year |-> year, month |-> month, day |-> day]
           ELSE [ok |-> FALSE, year |-> 0, month |-> 0, day |-> 0]
  ELSE [ok |-> FALSE, year |-> 0, month |-> 0, day |-> 0]

\* time.Parse("15:04", s): the hour is one or two digits (getnum with
\* fixed = false) and below 24, the minute exactly two digits and below
\* 60, ":" between them, nothing after. minute is the minute of the day.
ParseClock(s) ==
  LET colon == IF Len(s) >= 2 /\ s[2] = ":" THEN 2 ELSE 3
  IN  IF /\ Len(s) = colon + 2
         /\ s[colon] = ":"
         /\ AllDigits(Slice(s, 1, colon - 1))
         /\ AllDigits(Slice(s, colon + 1, colon + 2))
      THEN LET hour == DigitsToInt(Slice(s, 1, colon - 1))
               min == DigitsToInt(Slice(s, colon + 1, colon + 2))
           IN  IF hour < 24 /\ min < 60
               THEN [ok |-> TRUE, minute |-> 60 * hour + min]
               ELSE [ok |-> FALSE, minute |-> 0]
      ELSE [ok |-> FALSE, minute |-> 0]

\* A decimal string of more than MaxFloat64Digits significant integer digits
\* is at least 1e309, above math.MaxFloat64 (about 1.8e308).
MaxFloat64Digits == 309

\* strconv.ParseFloat(s, 64) on the model's alphabet, where the only
\* well-formed inputs are [-]digits[.digits] with at least one digit (the
\* exponent, hexadecimal, inf and nan forms need characters that are never
\* drawn). err is "" (nil), "syntax" (ErrSyntax) or "range" (ErrRange, the
\* value is out of float64's range). The value is num / 10^scale; float64
\* holds the drawn values closely enough that the code's Ceil and Mod
\* results equal the exact ones.
ParseFloat(s) ==
  LET neg == Len(s) >= 1 /\ s[1] = "-"
      body == IF neg THEN Slice(s, 2, Len(s)) ELSE s
      dots == {i \in 1..Len(body) : body[i] = "."}
      dot == IF dots = {} THEN Len(body) + 1 ELSE CHOOSE i \in dots : TRUE
      int == Slice(body, 1, dot - 1)
      frac == Slice(body, dot + 1, Len(body))
      nonzero == {i \in 1..Len(int) : int[i] # "0"}
      sig == IF nonzero = {} THEN 0
             ELSE Len(int) + 1 - (CHOOSE i \in nonzero : \A j \in nonzero : i <= j)
      bad == [err |-> "syntax", num |-> 0, scale |-> 0]
  IN  IF Cardinality(dots) > 1 \/ ~AllDigits(int) \/ ~AllDigits(frac)
         \/ Len(int) + Len(frac) = 0
      THEN bad
      ELSE IF sig > MaxFloat64Digits
      THEN [err |-> "range", num |-> 0, scale |-> 0]
      ELSE [err |-> "",
            num |-> (IF neg THEN -1 ELSE 1) * DigitsToInt(int \o frac),
            scale |-> Len(frac)]

(***************************************************************************)
(* CalculatePoints                                                         *)
(***************************************************************************)
\* isRoundDollarAmount(total)
isRoundDollarAmount(total) == HasSuffix(total, <<".", "0", "0">>)

\* parseTotal(total): the parsed value, 0.0 when ParseFloat reports an error.
parseTotal(total) ==
  LET f == ParseFloat(total)
  IN  IF f.err # "" THEN [num |-> 0, scale |-> 0]
      ELSE [num |-> f.num, scale |-> f.scale]

\* isMultipleOfQuarter(total): math.Mod(value, 0.25) == 0
isMultipleOfQuarter(total) ==
  LET v == parseTotal(total)
  IN  (4 * v.num) % Pow10(v.scale) = 0

\* int(math.Ceil(price * 0.2)) for price = num / 10^scale
CeilFifth(num, scale) == -((-num) \div (5 * Pow10(scale)))

\* The points of the retailer rule: len(strings.ReplaceAll(Retailer, " ", "")).
RetailerPoints(retailer) == Len(RemoveSpaces(retailer))

\* The item loop from item i on: the points it adds, or the parse error
\* that makes CalculatePoints return at the first item it cannot parse.
RECURSIVE ItemPoints(_, _)
ItemPoints(items, i) ==
  IF i > Len(items) THEN [err |-> "", points |-> 0]
  ELSE LET trimmedLength == Len(TrimSpace(items[i].ShortDescription))
           rest == ItemPoints(items, i + 1)
       IN  IF trimmedLength % 3 = 0
           THEN LET price == ParseFloat(items[i].Price)
                IN  IF price.err # ""
                    THEN [err |-> "failed to parse price", points |-> 0]
                    ELSE IF rest.err # "" THEN rest
                    ELSE [err |-> "",
                          points |-> CeilFifth(price.num, price.scale) + rest.points]
           ELSE rest

\* A time rule that takes 14:00 itself.
TimePointsInclusive(minute) ==
  IF minute >= 14 * 60 /\ minute < 16 * 60 THEN 10 ELSE 0

\* The 10 points of the time rule: After(14:00) and Before(16:00).
TimePoints(minute) == IF minute > 14 * 60 /\ minute < 16 * 60 THEN 10 ELSE 0

\* CalculatePoints(receipt): [err, points]; err is "" for nil.
CalculatePoints(r) ==
  LET base == RetailerPoints(r.Retailer)
              + (IF isRoundDollarAmount(r.Total) THEN 50 ELSE 0)
              + (IF isMultipleOfQuarter(r.Total) THEN 25 ELSE 0)
              + (Len(r.Items) \div 2) * 5
      items == ItemPoints(r.Items, 1)
      purchaseDate == ParseDate(r.PurchaseDate)
      purchaseTime == ParseClock(r.PurchaseTime)
  IN  IF items.err # "" THEN [err |-> items.err, points |-> 0]
      ELSE IF ~purchaseDate.ok
      THEN [err |-> "failed to parse purchase date", points |-> 0]
      ELSE IF ~purchaseTime.ok
      THEN [err |-> "failed to parse purchase time", points |-> 0]
      ELSE [err |-> "",
            points |-> base + items.points
                       + (IF purchaseDate.day % 2 = 1 THEN 6 ELSE 0)
                       + TimePoints(purchaseTime.minute)]

(***************************************************************************)
(* ValidateReceipt, ValidateID                                             *)
(***************************************************************************)
\* An item loop that finishes with the description before it looks at the
\* price.
RECURSIVE ValidateItemsDescriptionFirst(_, _)
ValidateItemsDescriptionFirst(items, i) ==
  IF i > Len(items) THEN ""
  ELSE IF items[i].ShortDescription = <<>> THEN "Item ShortDescription is required"
  ELSE IF ~MatchName(items[i].ShortDescription)
  THEN "Item ShortDescription has invalid characters"
  ELSE IF items[i].Price = <<>> THEN "Item Price is required"
  ELSE IF ~MatchMoney(items[i].Price) THEN "Item Price has an invalid format"
  ELSE ValidateItemsDescriptionFirst(items, i + 1)

\* The item loop from item i on: the first failure, "" when there is none.
RECURSIVE ValidateItems(_, _)
ValidateItems(items, i) ==
  IF i > Len(items) THEN ""
  ELSE IF items[i].ShortDescription = <<>> THEN "Item ShortDescription is required"
  ELSE IF items[i].Price = <<>> THEN "Item Price is required"
  ELSE IF ~MatchName(items[i].ShortDescription)
  THEN "Item ShortDescription has invalid characters"
  ELSE IF ~MatchMoney(items[i].Price) THEN "Item Price has an invalid format"
  ELSE ValidateItems(items, i + 1)

\* ValidateReceipt(receipt): the error's message, "" for nil.
ValidateReceipt(r) ==
  IF r.Retailer = <<>> THEN "Retailer is required"
  ELSE IF r.PurchaseDate = <<>> THEN "PurchaseDate is required"
  ELSE IF r.PurchaseTime = <<>> THEN "PurchaseTime is required"
  ELSE IF r.Total = <<>> THEN "Total is required"
  ELSE IF Len(r.Items) = 0 THEN "At least one item is required"
  ELSE IF ~MatchName(r.Retailer) THEN "Retailer name has invalid characters"
  ELSE IF ~ParseDate(r.PurchaseDate).ok THEN "Invalid PurchaseDate format"
  ELSE IF ~ParseClock(r.PurchaseTime).ok THEN "Invalid PurchaseTime format"
  ELSE IF ~MatchMoney(r.Total) THEN "Invalid Total format"
  ELSE ValidateItems(r.Items, 1)

\* ValidateID(id): the error's message, "" for nil.
ValidateID(id) == IF ~MatchNoSpace(id) THEN "Invalid ID format" ELSE ""

(***************************************************************************)
(* GenerateReceiptID                                                       *)
(***************************************************************************)
\* The comparison handed to sort.Slice: by ShortDescription alone.
less(a, b) == StrLess(a.ShortDescription, b.ShortDescription)

\* The inner loop of the insertion sort: item j moves down while it is
\* less than the one before it.
RECURSIVE SiftDown(_, _)
SiftDown(items, j) ==
  IF j > 1 /\ less(items[j], items[j - 1])
  THEN SiftDown([items EXCEPT ![j] = items[j - 1], ![j - 1] = items[j]], j - 1)
  ELSE items

RECURSIVE SortFrom(_, _)
SortFrom(items, i) ==
  IF i > Len(items) THEN items ELSE SortFrom(SiftDown(items, i), i + 1)

\* sort.Slice(receipt.Items, less): for the at most 12 elements drawn here
\* the library runs its insertion sort, in place.
sortSlice(items) == SortFrom(items, 2)

\* The receipt once sort.Slice has run on its Items.
Sorted(r) == [r EXCEPT !.Items = sortSlice(r.Items)]

\* The "%s%s" of every item, in the order of the slice.
RECURSIVE ItemsText(_, _)
ItemsText(items, i) ==
  IF i > Len(items) THEN <<>>
  ELSE items[i].ShortDescription \o items[i].Price \o ItemsText(items, i + 1)

\* Everything written to the hasher, in order and with nothing in between.
HashInput(r) ==
  r.Retailer \o r.PurchaseDate \o r.PurchaseTime
    \o ItemsText(r.Items, 1) \o r.Total

\* sha256.Size
DigestSize == 32

\* The sum over the text of byte * weight of its position: the cardinality
\* of the bag that holds position i that many times.
WeightedSum(s) ==
  BagCardinality([i \in 1..Len(s) |-> Ascii(s[i]) * (((i * i) % 251) + 1)])

\* hasher.Sum(nil): DigestSize bytes that are a function of the text
\* written. SHA-256 itself is replaced by a position-weighted checksum
\* spread over the bytes; the texts drawn by the model have pairwise distinct
\* digests, as those of SHA-256 are taken to.
Sum256(s) ==
  LET h == (WeightedSum(s) + 257 * Len(s)) % 65521
  IN  [i \in 1..DigestSize |->
        IF i % 2 = 1 THEN ((h % 256) + 7 * i) % 256
        ELSE ((h \div 256) + 13 * i) % 256]

HexDigits ==
  <<"0", "1", "2", "3", "4", "5", "6", "7", "8", "9", "a", "b", "c", "d", "e", "f">>

\* hex.EncodeToString(bytes): two lowercase hexadecimal digits per byte.
EncodeToString(bytes) ==
  [i \in 1..(2 * Len(bytes)) |->
    IF i % 2 = 1 THEN HexDigits[(bytes[(i + 1) \div 2] \div 16) + 1]
    ELSE HexDigits[(bytes[i \div 2] % 16) + 1]]

\* receiptID
ReceiptID(r) == EncodeToString(Sum256(HashInput(r)))

(***************************************************************************)
(* The expiring cache (github.com/patrickmn/go-cache): a map from key to   *)
(* [Object, Expiration]; an item is expired once the clock is past its     *)
(* Expiration.                                                             *)
(***************************************************************************)
\* A cache that drops an item at its Expiration rather than after it.
ExpiredAtDeadline(item, t) == t >= item.Expiration

Expired(item, t) == t > item.Expiration

\* c.Get(k): whether a live item is stored under k.
CacheGet(c, k, t) == k \in DOMAIN c /\ ~Expired(c[k], t)

\* c.Set(k, x, cache.DefaultExpiration)
CacheSet(c, k, x, t) ==
  [kk \in DOMAIN c \cup {k} |->
    IF kk = k THEN [Object |-> x, Expiration |-> t + TTL] ELSE c[kk]]

\* The janitor's c.DeleteExpired()
CacheDeleteExpired(c, t) ==
  [kk \in {k \in DOMAIN c : ~Expired(c[k], t)} |-> c[kk]]

\* A call that stores the receipt again when it rejects it.
CacheAfterRefresh(c, k, x, t) == CacheSet(c, k, x, t)

\* The cache after the lookup and, when the key is not found, the Set.
CacheAfter(c, k, x, t) == IF CacheGet(c, k, t) THEN c ELSE CacheSet(c, k, x, t)

(***************************************************************************)
(* Receipts drawn by the model.                                            *)
(***************************************************************************)
Item(desc, price) == [ShortDescription |-> desc, Price |-> price]

Receipt(retailer, date, time, total, items) ==
  [Retailer |-> retailer, PurchaseDate |-> date, PurchaseTime |-> time,
   Total |-> total, Items |-> items]

DigitChar(n) == CHOOSE c \in Digits : DigitVal(c) = n
TwoDigits(n) == <<DigitChar(n \div 10), DigitChar(n % 10)>>

GoodRetailer == <<"T">>
GoodDate == <<"2", "0", "2", "2", "-", "0", "1", "-", "0", "1">>
EvenDate == <<"2", "0", "2", "2", "-", "0", "1", "-", "0", "2">>
BadDate == <<"2", "0", "2", "2", "-", "0", "2", "-", "3", "0">>
GoodTime == <<"1", "3", ":", "0", "1">>
BadTime == <<"2", "4", ":", "0", "0">>
GoodTotal == <<"3", ".", "0", "0">>
P100 == <<"1", ".", "0", "0">>
P200 == <<"2", ".", "0", "0">>
P1200 == <<"1", "2", ".", "0", "0">>
P1225 == <<"1", "2", ".", "2", "5">>
P15 == <<"1", ".", "5">>
\* A money string of MaxFloat64Digits + 1 integer digits: 1e309.
HugeMoney ==
  [i \in 1..(MaxFloat64Digits + 1) |-> IF i = 1 THEN "1" ELSE "0"]
    \o <<".", "0", "0">>

WithItems(items) == Receipt(GoodRetailer, GoodDate, GoodTime, GoodTotal, items)

\* The receipts submitted for identification: item lists that are
\* permutations of each other, with and without equal descriptions, and
\* two one-item receipts whose description and price meet differently.
IdPool ==
  { WithItems(<<Item(<<"B">>, P100), Item(<<"A">>, P200)>>),
    WithItems(<<Item(<<"A">>, P200), Item(<<"B">>, P100)>>),
    WithItems(<<Item(<<"A">>, P100), Item(<<"A">>, P200)>>),
    WithItems(<<Item(<<"A">>, P200), Item(<<"A">>, P100)>>),
    WithItems(<<Item(<<"A", "1">>, P200)>>),
    WithItems(<<Item(<<"A">>, P1200)>>) }

\* Every string over alphabet of length at most n.
RECURSIVE StringsUpTo(_, _)
StringsUpTo(alphabet, n) ==
  IF n = 0 THEN {<<>>}
  ELSE LET shorter == StringsUpTo(alphabet, n - 1)
       IN  shorter \cup {Append(s, c) : s \in shorter, c \in alphabet}

\* Every sequence of at most n elements of S.
RECURSIVE SeqsUpTo(_, _)
SeqsUpTo(S, n) ==
  IF n = 0 THEN {<<>>}
  ELSE LET shorter == SeqsUpTo(S, n - 1)
       IN  shorter \cup {Append(q, x) : q \in shorter, x \in S}

\* A letter, a digit, the underscore, the hyphen, every white-space
\* character of \s, and a character the name pattern rejects.
NameAlphabet == {"A", "1", "_", "-", " ", "\t", "\n", "\r", "\f", "&"}
Names == StringsUpTo(NameAlphabet, MaxNameLen)

\* HH:MM and H:MM for every hour up to 24 and minute up to 60, and a few
\* strings of another shape.
ClockStrings ==
  {TwoDigits(h) \o <<":">> \o TwoDigits(m) : h \in 0..24, m \in 0..60}
    \cup {<<DigitChar(h), ":">> \o TwoDigits(m) : h \in 0..9, m \in 0..60}
    \cup {<<>>, <<"1", "4", ":", "0">>, <<"1", "4", "0", "0">>,
          <<"1", "4", ":", "0", "0", "1">>, <<"-", "1", ":", "0", "0">>}

DateStrings ==
  {GoodDate, EvenDate, BadDate, <<>>,
   <<"2", "0", "2", "4", "-", "0", "2", "-", "2", "9">>,
   <<"2", "0", "2", "3", "-", "0", "2", "-", "2", "9">>,
   <<"2", "0", "2", "2", "-", "1", "3", "-", "0", "1">>,
   <<"2", "0", "2", "2", "-", "1", "-", "0", "1">>,
   <<"2", "2", "-", "0", "1", "-", "0", "1">>}

TotalStrings ==
  {GoodTotal, <<>>, <<"1", "0", ".", "5">>, <<"3", "5", ".", "3", "5">>,
   <<"0", ".", "2", "5">>, <<"1", "0", "0", ".", "0", "0">>, HugeMoney,
   <<"a", "b", "c">>, <<"-", "1", ".", "0", "0">>, <<".", "0", "0">>,
   <<"1", ".", "0", "0", "0">>}

GoodItem == Item(<<"A">>, P100)

\* The items of the item lists.
PureItems ==
  {Item(d, p) :
     d \in {<<"a", "b", "c">>, <<"a", "b">>, <<>>, <<"M", "&", "M">>},
     p \in {P100, P15, <<>>, HugeMoney}}

\* The items of the one-item receipts.
SingleItems ==
  {Item(d, p) :
     d \in Names \cup {<<"a", "b", "c">>, <<" ", " ", " ">>,
                       <<" ", "a", "b", "c", "\t">>},
     p \in {P100, P1225, <<"0", ".", "0", "1">>, <<"-", "1", ".", "0", "0">>,
            <<"a", "b", "c">>}}

\* The receipts the validator and the scorer are applied to: each field
\* varied over its strings with the others good, the item lists, and the
\* receipts that break several rules at once.
PurePool ==
  {Receipt(n, GoodDate, GoodTime, GoodTotal, <<GoodItem>>) : n \in Names}
    \cup {Receipt(GoodRetailer, d, t, GoodTotal, <<GoodItem>>) :
            d \in {GoodDate, EvenDate}, t \in ClockStrings}
    \cup {Receipt(GoodRetailer, d, GoodTime, GoodTotal, <<GoodItem>>) :
            d \in DateStrings}
    \cup {Receipt(GoodRetailer, GoodDate, GoodTime, t, <<GoodItem>>) :
            t \in TotalStrings}
    \cup {Receipt(GoodRetailer, GoodDate, GoodTime, GoodTotal, <<it>>) :
            it \in SingleItems}
    \cup {Receipt(GoodRetailer, GoodDate, GoodTime, GoodTotal, items) :
            items \in SeqsUpTo(PureItems, MaxItems)}
    \cup {Receipt(n, d, t, tot, items) :
            n \in {GoodRetailer, <<>>, <<"M", "&", "M">>},
            d \in {GoodDate, <<>>, BadDate},
            t \in {GoodTime, <<>>, BadTime},
            tot \in {GoodTotal, <<>>, <<"1", "0", ".", "5">>},
            items \in {<<>>, <<GoodItem>>, <<Item(<<"M", "&", "M">>, <<>>)>>}}

(***************************************************************************)
(* State.                                                                  *)
(*   cache    the expiring cache shared by all calls                       *)
(*   now      the clock the cache reads                                    *)
(*   receipt  the caller's receipt; its Items are the backing array the    *)
(*            callee's copy of the struct shares                           *)
(*   verr     the last result of ValidateReceipt on it                     *)
(*   points   the last result of CalculatePoints on it                     *)
(*   last     the most recent GenerateReceiptID call and what it returned  *)
(*   calls    the concurrent GenerateReceiptID calls in progress           *)
(***************************************************************************)
NoCache == [k \in {} |-> 0]
NotCalled == [called |-> FALSE, err |-> "", points |-> 0]
NoCall ==
  [called |-> FALSE, arg |-> <<>>, id |-> <<>>, dup |-> FALSE, exp |-> 0,
   before |-> "none"]
Procs == 1..NumProcs
Idle == [pc |-> "idle", receipt |-> <<>>, id |-> <<>>, dup |-> FALSE]

Init ==
  /\ cache = NoCache
  /\ now = 0
  /\ receipt \in IdPool
  /\ verr = NotCalled
  /\ points = NotCalled
  /\ last = NoCall
  /\ calls = [p \in Procs |-> Idle]

\* The caller calls ValidateReceipt(receipt).
Validate ==
  /\ verr' = [called |-> TRUE, err |-> ValidateReceipt(receipt), points |-> 0]
  /\ UNCHANGED <<cache, now, receipt, points, last, calls>>

\* The caller calls CalculatePoints(receipt).
Score ==
  /\ \E res \in {CalculatePoints(receipt)} :
       points' = [called |-> TRUE, err |-> res.err, points |-> res.points]
  /\ UNCHANGED <<cache, now, receipt, verr, last, calls>>

\* What the call before this one returned for the id this call computes.
Before(receiptID) ==
  IF ~last.called THEN "none"
  ELSE IF last.id # receiptID THEN "other"
  ELSE IF last.dup THEN "rejected" ELSE "accepted"

\* The caller calls GenerateReceiptID(r, cache) with the receipt r it has
\* built (or holds from its last call): the items are sorted in the array
\* the caller's slice shares, the id is computed, looked up and, when it is
\* not found, stored with the receipt. receipt is the caller's receipt as
\* the call leaves it; last records the argument, the id and whether the
\* error was returned (dup), with the Expiration of the item that was found
\* or else stored.
GenerateReceiptID(r) ==
  \E sorted \in {Sorted(r)} :
    \E receiptID \in {ReceiptID(sorted)} :
      \E exists \in {CacheGet(cache, receiptID, now)} :
        /\ receipt' = sorted
        /\ cache' = CacheAfter(cache, receiptID, sorted, now)
        /\ last' = [called |-> TRUE, arg |-> r, id |-> receiptID,
                    dup |-> exists,
                    exp |-> IF exists THEN cache[receiptID].Expiration
                            ELSE cache'[receiptID].Expiration,
                    before |-> Before(receiptID)]
        /\ UNCHANGED <<now, verr, points, calls>>

\* Time passes.
Tick ==
  /\ now < MaxTime
  /\ now' = now + 1
  /\ UNCHANGED <<cache, receipt, verr, points, last, calls>>

\* The cache's janitor deletes the expired items.
Janitor ==
  /\ \E k \in DOMAIN cache : Expired(cache[k], now)
  /\ cache' = CacheDeleteExpired(cache, now)
  /\ UNCHANGED <<now, receipt, verr, points, last, calls>>

Next ==
  \/ \E r \in IdPool : GenerateReceiptID(r)
  \/ Tick
  \/ Janitor

Spec == Init /\ [][Next]_vars

(***************************************************************************)
(* The validator and the scorer as functions of the receipt: the receipt   *)
(* is drawn from PurePool and both are applied to it.                      *)
(***************************************************************************)
InitPure ==
  /\ cache = NoCache
  /\ now = 0
  /\ receipt \in PurePool
  /\ verr = NotCalled
  /\ points = NotCalled
  /\ last = NoCall
  /\ calls = [p \in Procs |-> Idle]

NextPure ==
  \/ Validate
  \/ Score

SpecPure == InitPure /\ [][NextPure]_vars

(***************************************************************************)
(* Concurrent calls of GenerateReceiptID on one cache. Each goroutine has  *)
(* its own receipt; c.Get and c.Set are atomic (the cache locks), the call *)
(* as a whole is not. The clock stands still: nothing expires.             *)
(***************************************************************************)
\* Goroutine p enters GenerateReceiptID(r, cache): sorts and hashes.
Hash(p, r) ==
  /\ calls[p].pc \in {"idle", "done"}
  /\ \E sorted \in {Sorted(r)} :
       calls' = [calls EXCEPT ![p] = [pc |-> "get", receipt |-> sorted,
                                      id |-> ReceiptID(sorted), dup |-> FALSE]]
  /\ UNCHANGED <<cache, now, receipt, verr, points, last>>

\* Goroutine p runs c.Get(receiptID) and returns the error when it exists.
Get(p) ==
  /\ calls[p].pc = "get"
  /\ calls' = [calls EXCEPT ![p] =
                IF CacheGet(cache, calls[p].id, now)
                THEN [@ EXCEPT !.pc = "done", !.dup = TRUE]
                ELSE [@ EXCEPT !.pc = "set"]]
  /\ UNCHANGED <<cache, now, receipt, verr, points, last>>

\* Goroutine p runs c.Set(receiptID, receipt, ...) and returns the id.
Set(p) ==
  /\ calls[p].pc = "set"
  /\ cache' = CacheSet(cache, calls[p].id, calls[p].receipt, now)
  /\ calls' = [calls EXCEPT ![p] = [@ EXCEPT !.pc = "done", !.dup = FALSE]]
  /\ UNCHANGED <<now, receipt, verr, points, last>>

NextConc ==
  \/ \E p \in Procs, r \in IdPool : Hash(p, r)
  \/ \E p \in Procs : Get(p)
  \/ \E p \in Procs : Set(p)

SpecConc == Init /\ [][NextConc]_vars

(***************************************************************************)
(* Properties.                                                             *)
(***************************************************************************)
HexChars ==
  {"0", "1", "2", "3", "4", "5", "6", "7", "8", "9", "a", "b", "c", "d", "e", "f"}

IsHexId(id) == Len(id) = 64 /\ \A i \in 1..Len(id) : id[i] \in HexChars

\* How many times item x occurs in items.
Count(items, x) == Cardinality({i \in 1..Len(items) : items[i] = x})

\* The item lists hold the same items the same number of times.
IsPermutation(xs, ys) ==
  /\ Len(xs) = Len(ys)
  /\ \A i \in 1..Len(xs) : Count(xs, xs[i]) = Count(ys, xs[i])

\* The receipts have the same content, whatever the order of their items.
SameContent(a, b) ==
  /\ a.Retailer = b.Retailer
  /\ a.PurchaseDate = b.PurchaseDate
  /\ a.PurchaseTime = b.PurchaseTime
  /\ a.Total = b.Total
  /\ IsPermutation(a.Items, b.Items)

\* The texts hashed for the receipts drawn have pairwise distinct ids, so
\* that two equal ids below are two equal texts.
DigestDistinctOnPool ==
  \A a, b \in IdPool :
    ReceiptID(Sorted(a)) = ReceiptID(Sorted(b))
      => HashInput(Sorted(a)) = HashInput(Sorted(b))

\* last changes in the GenerateReceiptID steps and in no other, and
\* last'.arg is then the receipt that was passed.
\*
\* C1: every GenerateReceiptID call returns the id of its receipt; when a
\* live item is stored under the id at the lookup the call returns the
\* error, and otherwise it returns no error, the id is 64 lowercase
\* hexadecimal digits and the cache holds it afterwards. Hence a call that
\* follows an accepted call with the same receipt, before that item's
\* Expiration has passed, is rejected with the same id.
C1_FirstAcceptedSecondRejected ==
  [][last' # last =>
       \E r \in {last'.arg} : \E id \in {ReceiptID(Sorted(r))} :
         /\ last'.id = id
         /\ IF CacheGet(cache, id, now)
            THEN last'.dup
            ELSE ~last'.dup /\ IsHexId(id) /\ CacheGet(cache', id, now)
         /\ (last.called /\ ~last.dup /\ r \in {last.arg, receipt}
               /\ now <= last.exp)
              => last'.dup /\ last'.id = last.id]_vars

\* A second call was rejected right after the call that stored its id.
C1_Witness ==
  /\ last.called /\ last.dup /\ last.before = "accepted"
  /\ IsHexId(last.id)
  /\ CacheGet(cache, last.id, now)

\* C2 (as claimed): every receipt whose items are a permutation of those of
\* the receipt last identified, with the other fields equal, has the id
\* that call returned.
C2_PermutationsShareId ==
  last.called =>
    \A r \in IdPool :
      SameContent(r, last.arg) => ReceiptID(Sorted(r)) = last.id

\* C3 (as claimed): validated receipts of different content have different
\* hashed texts, and a validated receipt is rejected only when the item
\* stored under its id holds a receipt of the same content.
C3_IdIsUniqueToContent ==
  (last.called /\ ValidateReceipt(last.arg) = "") =>
    /\ \A r \in IdPool :
         (ValidateReceipt(r) = "" /\ ~SameContent(r, last.arg))
           => HashInput(Sorted(r)) # HashInput(Sorted(last.arg))
    /\ (last.dup /\ last.id \in DOMAIN cache)
         => SameContent(cache[last.id].Object, last.arg)

\* C4 (as claimed): CalculatePoints returns no error on a receipt that
\* ValidateReceipt accepts.
C4_ValidatedReceiptScores ==
  (verr.called /\ verr.err = "" /\ points.called) => points.err = ""

Rule(bad, reason) == [bad |-> bad, reason |-> reason]

\* Checks 1 to 5, in the order of the code.
FieldRules(r) ==
  << Rule(r.Retailer = <<>>, "Retailer is required"),
     Rule(r.PurchaseDate = <<>>, "PurchaseDate is required"),
     Rule(r.PurchaseTime = <<>>, "PurchaseTime is required"),
     Rule(r.Total = <<>>, "Total is required"),
     Rule(r.Items = <<>>, "At least one item is required"),
     Rule(~MatchName(r.Retailer), "Retailer name has invalid characters"),
     Rule(~ParseDate(r.PurchaseDate).ok, "Invalid PurchaseDate format"),
     Rule(~ParseClock(r.PurchaseTime).ok, "Invalid PurchaseTime format"),
     Rule(~MatchMoney(r.Total), "Invalid Total format") >>

DescRequired(it) ==
  Rule(it.ShortDescription = <<>>, "Item ShortDescription is required")
DescPattern(it) ==
  Rule(~MatchName(it.ShortDescription),
       "Item ShortDescription has invalid characters")
PriceRequired(it) == Rule(it.Price = <<>>, "Item Price is required")
PricePattern(it) ==
  Rule(~MatchMoney(it.Price), "Item Price has an invalid format")

\* Check 6 on one item: both fields non-empty, then both patterns.
ItemRulesRequiredFirst(it) ==
  <<DescRequired(it), PriceRequired(it), DescPattern(it), PricePattern(it)>>

\* Check 6 on one item: the description's rules, then the price's.
ItemRulesDescriptionFirst(it) ==
  <<DescRequired(it), DescPattern(it), PriceRequired(it), PricePattern(it)>>

\* Check 6 on the items from item i on, in list order.
RECURSIVE AllItemRules(_, _, _)
AllItemRules(items, i, descriptionFirst) ==
  IF i > Len(items) THEN <<>>
  ELSE (IF descriptionFirst THEN ItemRulesDescriptionFirst(items[i])
        ELSE ItemRulesRequiredFirst(items[i]))
         \o AllItemRules(items, i + 1, descriptionFirst)

\* The reason of the first violated rule, "" when none is violated.
FirstReason(rules) ==
  LET bad == {i \in 1..Len(rules) : rules[i].bad}
  IN  IF bad = {} THEN ""
      ELSE rules[CHOOSE i \in bad : \A j \in bad : i <= j].reason

ReasonsDistinct(rules) ==
  /\ Cardinality({rules[i].reason : i \in 1..Len(rules)}) = Len(rules)
  /\ \A i \in 1..Len(rules) : rules[i].reason # ""

\* C5 (as claimed): the reason returned is that of the first violated rule,
\* the rules of an item being ordered description non-empty, description
\* pattern, price non-empty, price pattern.
C5_DescriptionRulesBeforePrice ==
  verr.called =>
    verr.err = FirstReason(FieldRules(receipt)
                 \o AllItemRules(receipt.Items, 1, TRUE))

\* C5 (amended): the reason returned is that of the first violated rule,
\* where checks 1 to 5 come in order, then the items in list order, and the
\* rules of an item are ordered description non-empty, price non-empty,
\* description pattern, price pattern; the reasons of the rules are pairwise
\* distinct, and no reason is returned exactly when no rule is violated.
C5_FirstViolatedRule ==
  verr.called =>
    \E rules \in {FieldRules(receipt)
                    \o AllItemRules(receipt.Items, 1, FALSE)} :
      /\ verr.err = FirstReason(rules)
      /\ (verr.err = "") = (\A i \in 1..Len(rules) : ~rules[i].bad)
      /\ ReasonsDistinct(FieldRules(receipt) \o ItemRulesRequiredFirst(GoodItem))

\* A receipt that breaks several rules, among them the description pattern
\* and the price being required on one item, was validated.
C5_Witness ==
  /\ verr.called
  /\ verr.err = "Item Price is required"
  /\ \E i \in 1..Len(receipt.Items) :
       /\ receipt.Items[i].ShortDescription # <<>>
       /\ ~MatchName(receipt.Items[i].ShortDescription)
       /\ receipt.Items[i].Price = <<>>

\* The receipt was validated and scored without error.
ValidatedAndScored ==
  /\ verr.called /\ verr.err = ""
  /\ points.called /\ points.err = ""

\* HH:MM from 14:01 to 15:59.
BonusTimes ==
  {TwoDigits(h) \o <<":">> \o TwoDigits(m) :
     h \in {14, 15}, m \in 0..59} \ {<<"1", "4", ":", "0", "0">>}

\* The points of the receipt less those of the same receipt bought at 00:00.
TimeBonus ==
  points.points
    - CalculatePoints([receipt EXCEPT !.PurchaseTime =
                         <<"0", "0", ":", "0", "0">>]).points

\* C6: a validated receipt scores 10 points more than the same receipt
\* at 00:00 when its purchaseTime is one of 14:01 .. 15:59, and no more
\* than that receipt at any other time.
C6_TimeBonusWindow ==
  ValidatedAndScored =>
    TimeBonus = (IF receipt.PurchaseTime \in BonusTimes THEN 10 ELSE 0)

\* A validated receipt bought at 14:01 was scored with the bonus.
C6_Witness ==
  /\ ValidatedAndScored
  /\ receipt.PurchaseTime = <<"1", "4", ":", "0", "1">>
  /\ TimeBonus = 10

\* The points of the receipt less those of the same receipt of retailer "T",
\* whose name is worth one point.
RetailerBonus ==
  (points.points
     - CalculatePoints([receipt EXCEPT !.Retailer = GoodRetailer]).points) + 1

\* C7 (as claimed): the retailer's characters that are not white space are
\* worth one point each, and its white-space characters none.
C7_WhiteSpaceScoresNothing ==
  ValidatedAndScored =>
    RetailerBonus =
      Cardinality({i \in 1..Len(receipt.Retailer) :
                     receipt.Retailer[i] \notin SpaceChars})

\* C8 (as claimed): after a GenerateReceiptID call the caller's receipt is
\* the receipt it passed, its items in the order they had.
C8_CallerReceiptUnchanged ==
  last.called => receipt = last.arg

\* C9 (as claimed): of the concurrent calls that have returned for one id,
\* at most one returned without the error.
C9_OneCallSucceeds ==
  \A p, q \in Procs :
    (p # q /\ calls[p].pc = "done" /\ calls[q].pc = "done"
       /\ calls[p].id = calls[q].id)
      => (calls[p].dup \/ calls[q].dup)

\* C10: a call that returns the error leaves the cache as it was, stored
\* receipt and Expiration included; and a call for the id of a rejected
\* call, made once the Expiration that call found has passed, returns the
\* same id without the error.
C10_RejectionLeavesCache ==
  [][last' # last =>
       \E id \in {ReceiptID(Sorted(last'.arg))} :
         /\ last'.dup => cache' = cache
         /\ (last.called /\ last.dup /\ id = last.id /\ now > last.exp)
              => ~last'.dup /\ last'.id = last.id]_vars

\* A receipt was accepted again right after a rejected call for its id.
C10_Witness ==
  /\ last.called /\ ~last.dup /\ last.before = "rejected"
  /\ CacheGet(cache, last.id, now)

====
